---- MODULE Spec2Model ----
(***************************************************************************)
(* Model of stock_correlation(1).py: the interactive menu loop (main),     *)
(* its two tasks (task1, task2) and the numeric core they call             *)
(* (calculate_returns, calculate_rolling_correlation,                      *)
(* calculate_rolling_volatility, calculate_portfolio_volatility and the    *)
(* tail(30).corr() correlation matrix).                                    *)
(*                                                                         *)
(* Numbers.  A float is modelled by an exact rational <<n, d>> in lowest   *)
(* terms with d > 0.  NaN is <<0, 0>>; +inf and -inf are <<1, 0>> and      *)
(* <<-1, 0>>.  Square roots are exact when the radicand is the square of a *)
(* rational and are otherwise rounded up to the next multiple of           *)
(* 1/SqrtResolution.  Floating-point rounding is not modelled otherwise.   *)
(*                                                                         *)
(* Tables.  A pandas Series is [index, values]; a DataFrame is             *)
(* [columns, index, rows], rows being one tuple of values per index label. *)
(***************************************************************************)
EXTENDS Integers, Sequences, FiniteSets, TLC

(***************************************************************************)
(* Rational arithmetic with NaN                                            *)
(***************************************************************************)
NaN == <<0, 0>>

Abs(i) == IF i < 0 THEN -i ELSE i

Sign(i) == IF i < 0 THEN -1 ELSE IF i = 0 THEN 0 ELSE 1

RECURSIVE Gcd(_, _)
Gcd(a, b) == IF b = 0 THEN a ELSE Gcd(b, a % b)

\* the rational n/d (d # 0) in lowest terms with a positive denominator
Rat(n, d) ==
    LET g == Gcd(Abs(n), Abs(d))
    IN  <<(Sign(d) * n) \div g, Abs(d) \div g>>

RInt(i) == <<i, 1>>

IsFinite(x) == x[2] # 0

\* pd.notna / pd.isna on a scalar: only NaN is "not available"
IsNaN(x) == x = NaN

notna(x) == ~IsNaN(x)

RAdd(x, y) ==
    IF ~IsFinite(x) \/ ~IsFinite(y) THEN NaN
    ELSE LET g == Gcd(x[2], y[2])
         IN  Rat(x[1] * (y[2] \div g) + y[1] * (x[2] \div g), (x[2] \div g) * y[2])

RNeg(x) == IF IsFinite(x) THEN <<-x[1], x[2]>> ELSE <<-x[1], 0>>

RSub(x, y) == RAdd(x, RNeg(y))

\* cross-cancelling keeps the intermediate products small
RMul(x, y) ==
    IF ~IsFinite(x) \/ ~IsFinite(y) THEN NaN
    ELSE LET g1 == Gcd(Abs(x[1]), y[2])
             g2 == Gcd(Abs(y[1]), x[2])
         IN  IF x[1] = 0 \/ y[1] = 0 THEN RInt(0)
             ELSE <<(x[1] \div g1) * (y[1] \div g2), (x[2] \div g2) * (y[2] \div g1)>>

\* IEEE division: 0/0 is NaN, x/0 is an infinity
RDiv(x, y) ==
    IF ~IsFinite(x) \/ ~IsFinite(y) THEN NaN
    ELSE IF y[1] = 0 THEN <<Sign(x[1]), 0>>
    ELSE RMul(x, Rat(y[2], y[1]))

RLess(x, y) == x[1] * y[2] < y[1] * x[2]

RAbs(x) == <<Abs(x[1]), x[2]>>

\* largest r in lo..hi with r * r <= n (lo * lo <= n < (hi + 1) * (hi + 1))
RECURSIVE ISqrtIn(_, _, _)
ISqrtIn(n, lo, hi) ==
    IF lo >= hi THEN lo
    ELSE LET mid == (lo + hi + 1) \div 2
         IN  IF mid <= n \div mid THEN ISqrtIn(n, mid, hi)
             ELSE ISqrtIn(n, lo, mid - 1)

ISqrt(n) == ISqrtIn(n, 0, n)

IsSquare(n) == ISqrt(n) * ISqrt(n) = n

\* smallest r with r * r >= n
ISqrtUp(n) == IF IsSquare(n) THEN ISqrt(n) ELSE ISqrt(n) + 1

\* a rounded square root is a multiple of 1 / SqrtResolution
SqrtResolution == 8

\* the least integer >= (n * k) / d, computed without forming a product above n * k
CeilScaled(n, d, k) == (n \div d) * k + (((n % d) * k + d - 1) \div d)

\* np.sqrt and ** 0.5: NaN below zero, exact on squares of rationals, and otherwise
\* rounded up to the next multiple of 1 / SqrtResolution
RSqrt(x) ==
    IF ~IsFinite(x) \/ x[1] < 0 THEN NaN
    ELSE IF IsSquare(x[1]) /\ IsSquare(x[2]) THEN Rat(ISqrt(x[1]), ISqrt(x[2]))
    ELSE LET once == CeilScaled(x[1], x[2], SqrtResolution)
         IN  Rat(ISqrtUp(once * SqrtResolution), SqrtResolution)

(***************************************************************************)
(* Sample statistics (what pandas computes on the observations it keeps)   *)
(***************************************************************************)
\* the sum of xs[lo..hi], halving the range (the sum of rationals is exact in any order)
RECURSIVE RSumRange(_, _, _)
RSumRange(xs, lo, hi) ==
    IF lo > hi THEN RInt(0)
    ELSE IF lo = hi THEN xs[lo]
    ELSE LET mid == (lo + hi) \div 2
         IN  RAdd(RSumRange(xs, lo, mid), RSumRange(xs, mid + 1, hi))

RSum(xs) == RSumRange(xs, 1, Len(xs))

Mean(xs) == RDiv(RSum(xs), RInt(Len(xs)))

\* sum over i of (xs[i] - mean(xs)) * (ys[i] - mean(ys))
SumDevProd(xs, ys) ==
    LET mx == Mean(xs)
        my == Mean(ys)
    IN  RSum([i \in 1..Len(xs) |-> RMul(RSub(xs[i], mx), RSub(ys[i], my))])

\* ddof of Series.std / rolling.std
Ddof == 1

\* sample variance; one observation gives 0/0 = NaN
Var(xs) == RDiv(SumDevProd(xs, xs), RInt(Len(xs) - Ddof))

Std(xs) == RSqrt(Var(xs))

\* Pearson coefficient; NaN when either side has zero variance or the sample is empty
Pearson(xs, ys) ==
    IF Len(xs) = 0 THEN NaN
    ELSE RDiv(SumDevProd(xs, ys),
              RSqrt(RMul(SumDevProd(xs, xs), SumDevProd(ys, ys))))

(***************************************************************************)
(* pandas Series / DataFrame operations used by the program                *)
(***************************************************************************)
Max(a, b) == IF a > b THEN a ELSE b

Min(a, b) == IF a < b THEN a ELSE b

Series(index, values) == [index |-> index, values |-> values]

DataFrame(columns, index, rows) == [columns |-> columns, index |-> index, rows |-> rows]

\* the positions of flags that hold TRUE, in increasing order
Positions(flags) ==
    LET held == {p \in 1..Len(flags) : flags[p]}
    IN  [k \in 1..Cardinality(held) |->
            CHOOSE p \in held : Cardinality({q \in held : q <= p}) = k]

\* df.iloc[:, c]
iloc_col(df, c) == Series(df.index, [t \in 1..Len(df.rows) |-> df.rows[t][c]])

\* df[label]
getitem_col(df, label) ==
    iloc_col(df, CHOOSE c \in 1..Len(df.columns) : df.columns[c] = label)

\* series[label]
getitem(series, label) ==
    series.values[CHOOSE i \in 1..Len(series.index) : series.index[i] = label]

\* DataFrame.pct_change(): row t holds price[t] / price[t-1] - 1, the first row NaN
pct_change(df) ==
    DataFrame(df.columns, df.index,
        [t \in 1..Len(df.rows) |->
            [c \in 1..Len(df.columns) |->
                IF t = 1 THEN NaN
                ELSE RSub(RDiv(df.rows[t][c], df.rows[t - 1][c]), RInt(1))]])

\* DataFrame.dropna(): drops every row that holds a NaN
dropna(df) ==
    LET kept == Positions([t \in 1..Len(df.rows) |->
                    \A c \in 1..Len(df.columns) : notna(df.rows[t][c])])
    IN  DataFrame(df.columns,
                  [k \in 1..Len(kept) |-> df.index[kept[k]]],
                  [k \in 1..Len(kept) |-> df.rows[kept[k]]])

\* a tail that keeps the first min(n, len) rows instead of the last
tail_first_rows(df, n) ==
    LET last == Min(n, Len(df.rows))
    IN  DataFrame(df.columns, SubSeq(df.index, 1, last), SubSeq(df.rows, 1, last))

\* DataFrame.tail(n): the last min(n, len) rows
tail(df, n) ==
    LET len == Len(df.rows)
        first == Max(1, len - n + 1)
    IN  DataFrame(df.columns, SubSeq(df.index, first, len), SubSeq(df.rows, first, len))

\* the observations of the trailing window ending at position t that are not NaN
WindowObs(values, t, window) ==
    LET first == Max(1, t - window + 1)
        kept == Positions([i \in 1..(t - first + 1) |-> notna(values[first + i - 1])])
    IN  [k \in 1..Len(kept) |-> values[first + kept[k] - 1]]

\* a rolling std with min_periods=1: partial windows give a value
rolling_std_min_periods_1(series, window) ==
    Series(series.index,
        [t \in 1..Len(series.values) |->
            LET obs == WindowObs(series.values, t, window)
            IN  IF Len(obs) < 1 THEN NaN ELSE Std(obs)])

\* Series.rolling(window).std(): min_periods defaults to window
rolling_std(series, window) ==
    Series(series.index,
        [t \in 1..Len(series.values) |->
            LET obs == WindowObs(series.values, t, window)
            IN  IF Len(obs) < window THEN NaN ELSE Std(obs)])

\* an expanding correlation: every observation up to t once the window is full
rolling_corr_expanding(a, b, window) ==
    Series(a.index,
        [t \in 1..Len(a.values) |->
            IF t < window THEN NaN
            ELSE Pearson(SubSeq(a.values, 1, t), SubSeq(b.values, 1, t))])

\* a.rolling(window).corr(b) on two series with the same index
rolling_corr(a, b, window) ==
    Series(a.index,
        [t \in 1..Len(a.values) |->
            LET first == Max(1, t - window + 1)
                kept == Positions([i \in 1..(t - first + 1) |->
                            notna(a.values[first + i - 1]) /\ notna(b.values[first + i - 1])])
                xs == [k \in 1..Len(kept) |-> a.values[first + kept[k] - 1]]
                ys == [k \in 1..Len(kept) |-> b.values[first + kept[k] - 1]]
            IN  IF Len(kept) < window THEN NaN ELSE Pearson(xs, ys)])

\* DataFrame.corr(): pairwise Pearson over the rows where both columns are present
corr(df) ==
    [i \in 1..Len(df.columns) |->
        [j \in 1..Len(df.columns) |->
            LET kept == Positions([t \in 1..Len(df.rows) |->
                            notna(df.rows[t][i]) /\ notna(df.rows[t][j])])
            IN  Pearson([k \in 1..Len(kept) |-> df.rows[kept[k]][i]],
                        [k \in 1..Len(kept) |-> df.rows[kept[k]][j]])]]

(***************************************************************************)
(* The numeric core of the program                                         *)
(***************************************************************************)
\* window=30 of calculate_rolling_correlation and calculate_rolling_volatility
DefaultWindow == 30

\* trading days per year in the annualisation factor
TradingDays == 252

\* the result of a call that returns None
None == [kind |-> "None", index |-> <<>>, values |-> <<>>]

Some(series) == [kind |-> "Series", index |-> series.index, values |-> series.values]

calculate_returns(prices) == dropna(pct_change(prices))

calculate_rolling_correlation(returns, window) ==
    IF Len(returns.columns) = 2
    THEN Some(rolling_corr(iloc_col(returns, 1), iloc_col(returns, 2), window))
    ELSE None

calculate_rolling_volatility(returns, window) ==
    LET std == rolling_std(returns, window)
    IN  Series(std.index,
               [t \in 1..Len(std.values) |->
                   RMul(std.values[t], RSqrt(RInt(TradingDays)))])

\* a combination that leaves out the correlation term
calculate_portfolio_volatility_uncorrelated(vol1, vol2, corr_, weight1, weight2) ==
    LET sq(x) == RMul(x, x)
    IN  RSqrt(RAdd(RMul(sq(weight1), sq(vol1)), RMul(sq(weight2), sq(vol2))))

calculate_portfolio_volatility(vol1, vol2, corr_, weight1, weight2) ==
    LET sq(x) == RMul(x, x)
    IN  RSqrt(RAdd(RAdd(RMul(sq(weight1), sq(vol1)),
                        RMul(sq(weight2), sq(vol2))),
                   RMul(RMul(RMul(RMul(RMul(RInt(2), weight1), weight2), vol1), vol2),
                        corr_)))

\* a portfolio volatility that carries the last value forward over the gaps
RECURSIVE ffill(_, _)
ffill(values, last) ==
    IF values = <<>> THEN <<>>
    ELSE IF IsNaN(Head(values)) THEN <<last>> \o ffill(Tail(values), last)
    ELSE <<Head(values)>> \o ffill(Tail(values), Head(values))

portfolio_volatility_ffill(rolling, vol1, vol2, weight1, weight2) ==
    Series(rolling.index,
        ffill([i \in 1..Len(rolling.index) |->
                  LET date == rolling.index[i]
                  IN  calculate_portfolio_volatility(getitem(vol1, date),
                          getitem(vol2, date), getitem(rolling, date), weight1, weight2)],
              NaN))

\* task1, "portfolio volatility": a NaN series on rolling_corr's index, filled in
\* at the dates where the correlation and both volatilities are available
portfolio_volatility(rolling, vol1, vol2, weight1, weight2) ==
    Series(rolling.index,
        [i \in 1..Len(rolling.index) |->
            LET date == rolling.index[i]
            IN  IF notna(getitem(rolling, date)) /\ notna(getitem(vol1, date))
                   /\ notna(getitem(vol2, date))
                THEN calculate_portfolio_volatility(getitem(vol1, date),
                         getitem(vol2, date), getitem(rolling, date), weight1, weight2)
                ELSE NaN])

\* task2, "correlation matrix"
TailWindow == 30

correlation_matrix(returns) == corr(tail(returns, TailWindow))

(***************************************************************************)
(* Console input: float(input(...)) and the comma-separated ticker list    *)
(***************************************************************************)
\* a line of input is a sequence of one-character strings
DigitValue ==
    [c \in {"0", "1", "2", "3", "4", "5", "6", "7", "8", "9"} |->
        CASE c = "0" -> 0 [] c = "1" -> 1 [] c = "2" -> 2 [] c = "3" -> 3
          [] c = "4" -> 4 [] c = "5" -> 5 [] c = "6" -> 6 [] c = "7" -> 7
          [] c = "8" -> 8 [] c = "9" -> 9]

IsDigit(c) == c \in DOMAIN DigitValue

\* str.strip(): drops leading and trailing blanks
RECURSIVE lstrip(_)
lstrip(s) == IF s # <<>> /\ Head(s) = " " THEN lstrip(Tail(s)) ELSE s

RECURSIVE rstrip(_)
rstrip(s) ==
    IF s # <<>> /\ s[Len(s)] = " " THEN rstrip(SubSeq(s, 1, Len(s) - 1)) ELSE s

strip(s) == lstrip(rstrip(s))

\* the text of a float literal without its sign
Unsigned(s) == IF s # <<>> /\ Head(s) \in {"-", "+"} THEN Tail(s) ELSE s

DotPositions(s) == {i \in 1..Len(s) : s[i] = "."}

\* float(s) raises ValueError unless s is [sign] digits [. digits] with a digit
IsFloatLiteral(s) ==
    LET u == Unsigned(strip(s))
    IN  /\ \A i \in 1..Len(u) : IsDigit(u[i]) \/ u[i] = "."
        /\ Cardinality(DotPositions(u)) <= 1
        /\ \E i \in 1..Len(u) : IsDigit(u[i])

RECURSIVE Pow10(_)
Pow10(k) == IF k = 0 THEN 1 ELSE 10 * Pow10(k - 1)

\* the integer written by the digits of s, its dot skipped
RECURSIVE DigitsValue(_, _)
DigitsValue(s, acc) ==
    IF s = <<>> THEN acc
    ELSE IF Head(s) = "." THEN DigitsValue(Tail(s), acc)
    ELSE DigitsValue(Tail(s), 10 * acc + DigitValue[Head(s)])

\* float(s) for a literal s
float(s) ==
    LET t == strip(s)
        u == Unsigned(t)
        dots == DotPositions(u)
        frac == IF dots = {} THEN 0 ELSE Len(u) - (CHOOSE i \in dots : TRUE)
        mag == Rat(DigitsValue(u, 0), Pow10(frac))
    IN  IF t # <<>> /\ Head(t) = "-" THEN RNeg(mag) ELSE mag

\* str.split(','): the fields between the commas (one field when there is none)
RECURSIVE split(_, _)
split(s, field) ==
    IF s = <<>> THEN <<field>>
    ELSE IF Head(s) = "," THEN <<field>> \o split(Tail(s), <<>>)
    ELSE split(Tail(s), Append(field, Head(s)))

\* task2: [ticker.strip() for ticker in tickers_input.split(',')]
parse_tickers(tickers_input) ==
    LET fields == split(strip(tickers_input), <<>>)
    IN  [i \in 1..Len(fields) |-> strip(fields[i])]

(***************************************************************************)
(* Bounds of the model and the inputs drawn from them                      *)
(***************************************************************************)
\* most rows a short price table holds
MaxDays == 2

\* most symbols typed into task2
MaxSymbols == 11

\* closing prices
PriceValues == {1, 2}

\* what the user types at a weight prompt
WeightInputs ==
    { <<"6", "0">>, <<"4", "0">>, <<"4", "1">>, <<"4", "0", ".", "0", "1">>,
      <<"4", "0", ".", "0", "2">>, <<"3", "9", ".", "9", "9">>,
      <<"3", "9", ".", "9", "8">>, <<"1", "5", "0">>, <<"-", "5", "0">>,
      <<" ", "6", "0", " ">>, <<"a", "b", "c">>, <<>> }

\* what the user types at the menu prompt
MenuInputs == {"0", "1", "2", "3", ""}

Letters == <<"A", "B", "C", "D", "E", "F", "G", "H", "I", "J", "K", "L", "M", "N">>

\* "A,B,...": k symbols separated by commas
RECURSIVE TickerLine(_)
TickerLine(k) ==
    IF k = 0 THEN <<>>
    ELSE IF k = 1 THEN <<Letters[1]>>
    ELSE TickerLine(k - 1) \o <<",", Letters[k]>>

\* what the user types at the ticker prompt of task2
TickerInputs ==
    {TickerLine(k) : k \in 0..MaxSymbols}
        \cup { <<"A", ",", " ", "B">>, <<"A", ",">>, <<",">> }

Reverse(s) == [i \in 1..Len(s) |-> s[Len(s) + 1 - i]]

\* one row of prices: odd columns hold a, even columns hold b
PriceRow(k, a, b) == [c \in 1..k |-> IF c % 2 = 1 THEN RInt(a) ELSE RInt(b)]

PriceRows(k) == {PriceRow(k, a, b) : a \in PriceValues, b \in PriceValues}

\* the tables the price provider can answer with for these tickers: one column per
\* ticker in either order, dates 1..n, positive prices, no gaps
PriceFrames(tickers) ==
    {DataFrame(cols, [t \in 1..Len(rows) |-> t], rows) :
        cols \in {tickers, Reverse(tickers)},
        rows \in UNION {[1..n -> PriceRows(Len(tickers))] : n \in 0..MaxDays}}

(***************************************************************************)
(* The tasks                                                               *)
(***************************************************************************)
\* get_stock_data: the provider raises, or answers with a table of closing prices
get_stock_data(tickers) ==
    {[raised |-> TRUE, data |-> DataFrame(<<>>, <<>>, <<>>)]}
        \cup {[raised |-> FALSE, data |-> f] : f \in PriceFrames(tickers)}

\* a weight check that also rejects a sum that is off by exactly 0.01
weights_rejected_at_tolerance(weight1_input, weight2_input) ==
    ~RLess(RAbs(RSub(RAdd(weight1_input, weight2_input), RInt(100))), Rat(1, 100))

\* task1, "verify the sum of weights is 100%": abs(w1 + w2 - 100) > 0.01 rejects
weights_rejected(weight1_input, weight2_input) ==
    RLess(Rat(1, 100), RAbs(RSub(RAdd(weight1_input, weight2_input), RInt(100))))

\* task1, "convert weights to decimals"
to_decimal(weight_input) == RDiv(weight_input, RInt(100))

\* task1, "3. calculate": returns, rolling correlation, the two volatilities and the
\* portfolio volatility; rolling_corr.index raises AttributeError on None
task1_calculate(prices, stock1, stock2, weight1, weight2, window) ==
    LET returns == calculate_returns(prices)
        rolling == calculate_rolling_correlation(returns, window)
        vol1 == calculate_rolling_volatility(getitem_col(returns, stock1), window)
        vol2 == calculate_rolling_volatility(getitem_col(returns, stock2), window)
    IN  IF rolling.kind = "None"
        THEN [raised |-> "AttributeError", returns |-> returns, rolling_corr |-> rolling,
              vol1 |-> vol1, vol2 |-> vol2, portfolio_vol |-> Series(<<>>, <<>>)]
        ELSE [raised |-> "none", returns |-> returns, rolling_corr |-> rolling,
              vol1 |-> vol1, vol2 |-> vol2,
              portfolio_vol |-> portfolio_volatility(rolling, vol1, vol2, weight1, weight2)]

\* task1, "output": the latest values; formatting None with :.4f raises TypeError
task1_output(rolling, portfolio_vol) ==
    LET latest_corr == IF rolling.values # <<>>
                       THEN <<rolling.values[Len(rolling.values)]>> ELSE <<>>
        latest_vol == IF portfolio_vol.values # <<>>
                      THEN <<RMul(portfolio_vol.values[Len(portfolio_vol.values)], RInt(100))>>
                      ELSE <<>>
    IN  IF latest_corr = <<>> \/ latest_vol = <<>>
        THEN [raised |-> "TypeError", latest |-> <<>>]
        ELSE [raised |-> "none", latest |-> latest_corr \o latest_vol]

\* a ticker check whose upper limit is off by one
tickers_rejected_above_11(tickers) ==
    IF Len(tickers) > 11 THEN "error: max 10 stocks"
    ELSE IF Len(tickers) < 2 THEN "error: at least 2 stocks"
    ELSE "ok"

\* task2, "error handling" of the number of tickers
tickers_rejected(tickers) ==
    IF Len(tickers) > 10 THEN "error: max 10 stocks"
    ELSE IF Len(tickers) < 2 THEN "error: at least 2 stocks"
    ELSE "ok"

(***************************************************************************)
(* State                                                                   *)
(***************************************************************************)
VARIABLES
    pc,         \* where the process is: the menu, a step of a task, exited, crashed
    choice,     \* the last line typed at the menu
    typed,      \* the lines typed at the prompts of the running task
    weights,    \* task1: <<weight1, weight2>> as decimals
    tickers,    \* the tickers of the running task
    prices,     \* the table the provider answered with
    calc,       \* what the running task computed
    fetched,    \* the provider was called in the running task
    shown,      \* plt.show() was reached in the running task
    printed,    \* the last message printed
    exception,  \* the uncaught exception that ended the process
    call,       \* numeric core on its own: the pending call and its arguments
    out         \* numeric core on its own: what the call returned

vars == <<pc, choice, typed, weights, tickers, prices, calc, fetched, shown, printed,
          exception, call, out>>

flow == <<pc, choice, typed, weights, tickers, prices, calc, fetched, shown, printed, exception>>

NoFrame == DataFrame(<<>>, <<>>, <<>>)

NoCalc == [task |-> "none"]

NoCall == [fn |-> "none"]

Stock1 == <<"A">>

Stock2 == <<"B">>

(***************************************************************************)
(* main: the menu loop                                                     *)
(***************************************************************************)
Init ==
    /\ pc = "menu"
    /\ choice = ""
    /\ typed = <<>>
    /\ weights = <<NaN, NaN>>
    /\ tickers = <<>>
    /\ prices = NoFrame
    /\ calc = NoCalc
    /\ fetched = FALSE
    /\ shown = FALSE
    /\ printed = "select task:"
    /\ exception = "none"
    /\ call = NoCall
    /\ out = NoCall

\* choice = input(...): '1' runs task1, '2' runs task2, '0' breaks, anything else
\* prints "invalid option" and loops
Menu ==
    /\ pc = "menu"
    /\ \E line \in MenuInputs :
        /\ choice' = line
        /\ pc' = CASE line = "1" -> "task1_input"
                   [] line = "2" -> "task2_input"
                   [] line = "0" -> "exited"
                   [] OTHER -> "menu"
        /\ printed' = CASE line = "0" -> "program exited."
                        [] line \in {"1", "2"} -> printed
                        [] OTHER -> "invalid option, please input again."
    /\ typed' = <<>>
    /\ weights' = <<NaN, NaN>>
    /\ tickers' = <<>>
    /\ prices' = NoFrame
    /\ calc' = NoCalc
    /\ fetched' = FALSE
    /\ shown' = FALSE
    /\ UNCHANGED <<exception, call, out>>

\* task1, "1. user input": the two weights are parsed with float() and checked
Task1Input ==
    /\ pc = "task1_input"
    /\ \E weight1_text \in WeightInputs, weight2_text \in WeightInputs :
        /\ typed' = <<weight1_text, weight2_text>>
        /\ IF ~IsFloatLiteral(weight1_text) \/ ~IsFloatLiteral(weight2_text)
           THEN /\ pc' = "crashed"
                /\ exception' = "ValueError"
                /\ UNCHANGED <<weights, tickers, printed>>
           ELSE IF weights_rejected(float(weight1_text), float(weight2_text))
           THEN /\ pc' = "menu"
                /\ printed' = "error: the sum of weights must be 100%"
                /\ UNCHANGED <<weights, tickers, exception>>
           ELSE /\ pc' = "task1_fetch"
                /\ weights' = <<to_decimal(float(weight1_text)),
                                to_decimal(float(weight2_text))>>
                /\ tickers' = <<Stock1, Stock2>>
                /\ UNCHANGED <<printed, exception>>
    /\ UNCHANGED <<choice, prices, calc, fetched, shown, call, out>>

\* task1, "2. get data": any exception of the provider is printed and ends the task
Task1Fetch ==
    /\ pc = "task1_fetch"
    /\ fetched' = TRUE
    /\ \E answer \in get_stock_data(tickers) :
        IF answer.raised
        THEN /\ pc' = "menu"
             /\ printed' = "error: provider"
             /\ UNCHANGED prices
        ELSE /\ pc' = "task1_calc"
             /\ prices' = answer.data
             /\ UNCHANGED printed
    /\ UNCHANGED <<choice, typed, weights, tickers, calc, shown, exception, call, out>>

\* task1, "3. calculate", "4. plot" and "output"
Task1Calc ==
    /\ pc = "task1_calc"
    /\ LET c == task1_calculate(prices, tickers[1], tickers[2], weights[1], weights[2],
                                DefaultWindow)
           o == task1_output(c.rolling_corr, c.portfolio_vol)
       IN  /\ calc' = [task |-> "task1", rolling_corr |-> c.rolling_corr,
                       portfolio_vol |-> c.portfolio_vol, latest |-> o.latest]
           /\ IF c.raised # "none"
              THEN /\ pc' = "crashed"
                   /\ exception' = c.raised
                   /\ UNCHANGED <<shown, printed>>
              ELSE IF o.raised # "none"
              THEN /\ pc' = "crashed"
                   /\ exception' = o.raised
                   /\ UNCHANGED <<shown, printed>>
              ELSE /\ pc' = "menu"
                   /\ shown' = TRUE
                   /\ printed' = "latest value:"
                   /\ UNCHANGED exception
    /\ UNCHANGED <<choice, typed, weights, tickers, prices, fetched, call, out>>

\* task2, "1. user input" and "error handling"
Task2Input ==
    /\ pc = "task2_input"
    /\ \E tickers_input \in TickerInputs :
        /\ typed' = <<tickers_input>>
        /\ tickers' = parse_tickers(tickers_input)
        /\ IF tickers_rejected(tickers') # "ok"
           THEN /\ pc' = "menu"
                /\ printed' = tickers_rejected(tickers')
           ELSE /\ pc' = "task2_fetch"
                /\ UNCHANGED printed
    /\ UNCHANGED <<choice, weights, prices, calc, fetched, shown, exception, call, out>>

\* task2, "2. get data"
Task2Fetch ==
    /\ pc = "task2_fetch"
    /\ fetched' = TRUE
    /\ \E answer \in get_stock_data(tickers) :
        IF answer.raised
        THEN /\ pc' = "menu"
             /\ printed' = "error: provider"
             /\ UNCHANGED prices
        ELSE /\ pc' = "task2_calc"
             /\ prices' = answer.data
             /\ UNCHANGED printed
    /\ UNCHANGED <<choice, typed, weights, tickers, calc, shown, exception, call, out>>

\* task2, "3. calculate", "4. plot" and "5. output"
Task2Calc ==
    /\ pc = "task2_calc"
    /\ calc' = [task |-> "task2",
                correlation_matrix |-> correlation_matrix(calculate_returns(prices))]
    /\ pc' = "menu"
    /\ shown' = TRUE
    /\ UNCHANGED <<choice, typed, weights, tickers, prices, fetched, printed, exception, call, out>>

Next ==
    \/ Menu
    \/ Task1Input
    \/ Task1Fetch
    \/ Task1Calc
    \/ Task2Input
    \/ Task2Fetch
    \/ Task2Calc

Spec == Init /\ [][Next]_vars

(***************************************************************************)
(* Claims about the tasks and the menu loop (specification Spec)           *)
(***************************************************************************)
\* |w1 + w2 - 100| > 0.01 for two percentages
SumOffBy(w1, w2) == RAbs(RSub(RAdd(w1, w2), RInt(100)))

\* the running task has done nothing beyond printing its message
NothingDone == ~fetched /\ ~shown /\ prices = NoFrame /\ calc = NoCalc

\* C1: in task1, weights w1, w2 with |w1 + w2 - 100| > 0.01 are rejected with the
\* validation message before the provider is called (no fetch, no computation, no
\* rendering, back at the menu); weights with |w1 + w2 - 100| <= 0.01 proceed to
\* the fetch.
C1_WeightsCheckedBeforeFetch ==
    (choice = "1" /\ typed # <<>> /\ IsFloatLiteral(typed[1]) /\ IsFloatLiteral(typed[2]))
        => IF RLess(Rat(1, 100), SumOffBy(float(typed[1]), float(typed[2])))
           THEN /\ pc = "menu"
                /\ printed = "error: the sum of weights must be 100%"
                /\ NothingDone
           ELSE pc = "task1_fetch" \/ fetched

\* the scenario weight1=60, weight2=41 has been rejected
C1_Witness ==
    /\ choice = "1" /\ pc = "menu"
    /\ typed = << <<"6", "0">>, <<"4", "1">> >>
    /\ printed = "error: the sum of weights must be 100%"

\* the number of symbols a ticker line asks for: its commas plus one
RequestedSymbols(line) == 1 + Cardinality({i \in 1..Len(line) : line[i] = ","})

\* C2: in task2 the provider is called only when 2..10 symbols are requested; with
\* fewer than 2 or more than 10 the task is rejected with a validation message
\* before any fetch and control is back at the menu.
C2_FetchOnlyFor2To10Symbols ==
    (choice = "2" /\ typed # <<>>)
        => LET n == RequestedSymbols(typed[1])
           IN  /\ fetched => (2 <= n /\ n <= 10)
               /\ (n < 2 \/ n > 10)
                    => /\ pc = "menu"
                       /\ printed \in {"error: max 10 stocks", "error: at least 2 stocks"}
                       /\ NothingDone

\* the scenario of 11 requested symbols has been rejected
C2_Witness ==
    /\ choice = "2" /\ pc = "menu"
    /\ typed # <<>> /\ RequestedSymbols(typed[1]) = 11
    /\ printed = "error: max 10 stocks"

\* C3: no error is fatal: whatever happens inside a task, the loop shows the menu
\* again, and the process ends only when the user chooses option 0.
C3_ProcessEndsOnlyOnOption0 ==
    pc \in {"exited", "crashed"} => (pc = "exited" /\ choice = "0")

(***************************************************************************)
(* The numeric core on its own (specification SpecCore): one call of       *)
(* calculate_returns, calculate_rolling_correlation,                       *)
(* calculate_rolling_volatility or of task1's calculation, on arguments    *)
(* drawn from bounded sets.  Returns are always computed from prices.      *)
(***************************************************************************)
\* most rows of a price table handed to the core
CoreMaxDays == 4

\* most columns of a price table handed to the core
CoreMaxCols == 3

\* largest rolling window handed to the core
CoreMaxWindow == 3

Pending == [raised |-> "pending"]

Returned(value) == [raised |-> "none", value |-> value]

Raised(name) == [raised |-> name]

Columns(k) == [c \in 1..k |-> <<Letters[c]>>]

\* price tables of k columns and up to CoreMaxDays rows
CorePriceFrames(k) ==
    {DataFrame(Columns(k), [t \in 1..Len(rows) |-> t], rows) :
        rows \in UNION {[1..n -> PriceRows(k)] : n \in 0..CoreMaxDays}}

CoreWindows == 1..CoreMaxWindow

\* decimal weights that task1 lets through
CoreWeights == { <<Rat(3, 5), Rat(2, 5)>>, <<Rat(3, 2), Rat(-1, 2)>> }

CoreCalls ==
    {[fn |-> "calculate_returns", prices |-> p] :
        p \in UNION {CorePriceFrames(k) : k \in 1..CoreMaxCols}}
    \cup
    {[fn |-> "calculate_rolling_correlation", returns |-> calculate_returns(p),
      window |-> w] :
        p \in UNION {CorePriceFrames(k) : k \in 1..CoreMaxCols}, w \in CoreWindows}
    \cup
    {[fn |-> "calculate_rolling_volatility",
      returns |-> iloc_col(calculate_returns(p), 1), window |-> w] :
        p \in CorePriceFrames(1), w \in CoreWindows}
    \cup
    {[fn |-> "task1_calculate", prices |-> p, stock1 |-> s[1], stock2 |-> s[2],
      weight1 |-> wt[1], weight2 |-> wt[2], window |-> w] :
        p \in CorePriceFrames(2), s \in {Columns(2), Reverse(Columns(2))},
        wt \in CoreWeights, w \in CoreWindows}

FlowIdle ==
    /\ pc = "idle"
    /\ choice = ""
    /\ typed = <<>>
    /\ weights = <<NaN, NaN>>
    /\ tickers = <<>>
    /\ prices = NoFrame
    /\ calc = NoCalc
    /\ fetched = FALSE
    /\ shown = FALSE
    /\ printed = ""
    /\ exception = "none"

InitCore ==
    /\ FlowIdle
    /\ call \in CoreCalls
    /\ out = Pending

CallReturns ==
    /\ call.fn = "calculate_returns" /\ out = Pending
    /\ out' = Returned(calculate_returns(call.prices))
    /\ UNCHANGED <<flow, call>>

CallRollingCorrelation ==
    /\ call.fn = "calculate_rolling_correlation" /\ out = Pending
    /\ out' = Returned(calculate_rolling_correlation(call.returns, call.window))
    /\ UNCHANGED <<flow, call>>

CallRollingVolatility ==
    /\ call.fn = "calculate_rolling_volatility" /\ out = Pending
    /\ out' = Returned(calculate_rolling_volatility(call.returns, call.window))
    /\ UNCHANGED <<flow, call>>

CallTask1Calculate ==
    /\ call.fn = "task1_calculate" /\ out = Pending
    /\ LET c == task1_calculate(call.prices, call.stock1, call.stock2,
                                call.weight1, call.weight2, call.window)
       IN  out' = IF c.raised = "none" THEN Returned(c) ELSE Raised(c.raised)
    /\ UNCHANGED <<flow, call>>

NextCore ==
    \/ CallReturns
    \/ CallRollingCorrelation
    \/ CallRollingVolatility
    \/ CallTask1Calculate

SpecCore == InitCore /\ [][NextCore]_vars

Done(fn) == call.fn = fn /\ out # Pending

AllNaN(values) == \A t \in 1..Len(values) : IsNaN(values[t])

(***************************************************************************)
(* Claims about the numeric core (specification SpecCore)                  *)
(***************************************************************************)
\* the first part of C9, which the code satisfies: n >= 2 prices give n - 1 returns,
\* the k-th being P[k+1]/P[k] - 1, and only the leading date is dropped
C9_ReturnsOfTwoOrMorePrices ==
    (Done("calculate_returns") /\ Len(call.prices.rows) >= 2)
        => LET P == call.prices
               n == Len(P.rows)
           IN  /\ out.raised = "none"
               /\ Len(out.value.rows) = n - 1
               /\ out.value.index = Tail(P.index)
               /\ \A k \in 1..(n - 1) : \A c \in 1..Len(P.columns) :
                    out.value.rows[k][c]
                        = RSub(RDiv(P.rows[k + 1][c], P.rows[k][c]), RInt(1))

\* C9: computeReturns of n >= 2 prices has length n - 1, its k-th value is
\* P[k+1]/P[k] - 1 and only the leading date is dropped; with fewer than 2 price
\* points it fails with InsufficientDataError.
C9_ReturnsOrInsufficientDataError ==
    /\ C9_ReturnsOfTwoOrMorePrices
    /\ (Done("calculate_returns") /\ Len(call.prices.rows) < 2)
        => out.raised = "InsufficientDataError"

\* C4: rollingCorrelation returns a series only for exactly two return series and
\* signals UnsupportedArityError for any other number of series.
C4_OtherThanTwoSeriesSignalsError ==
    Done("calculate_rolling_correlation")
        => IF Len(call.returns.columns) = 2
           THEN out.raised = "none" /\ out.value.kind = "Series"
           ELSE out.raised = "UnsupportedArityError"

RollingVolatilityDone == Done("calculate_rolling_volatility")

RollingCorrelationOfTwoDone ==
    Done("calculate_rolling_correlation") /\ Len(call.returns.columns) = 2

C7_RollingWindowAlignment ==
    /\ RollingVolatilityDone
        => LET R == call.returns
               w == call.window
           IN  /\ out.raised = "none"
               /\ out.value.index = R.index
               /\ Len(out.value.values) = Len(R.values)
               /\ \A t \in 1..Len(R.values) :
                    IF t < w THEN IsNaN(out.value.values[t])
                    ELSE out.value.values[t]
                            = RMul(Std(SubSeq(R.values, t - w + 1, t)), RSqrt(RInt(252)))
    /\ RollingCorrelationOfTwoDone
        => LET A == iloc_col(call.returns, 1)
               B == iloc_col(call.returns, 2)
               w == call.window
           IN  /\ out.raised = "none"
               /\ out.value.index = call.returns.index
               /\ Len(out.value.values) = Len(call.returns.rows)
               /\ \A t \in 1..Len(A.values) :
                    IF t < w THEN IsNaN(out.value.values[t])
                    ELSE out.value.values[t]
                            = Pearson(SubSeq(A.values, t - w + 1, t),
                                      SubSeq(B.values, t - w + 1, t))

\* a window of 2 over 3 returns with a correlation at the last position
C7_Witness ==
    /\ RollingCorrelationOfTwoDone
    /\ call.window = 2
    /\ Len(call.returns.rows) = 3
    /\ IsNaN(out.value.values[1])
    /\ notna(out.value.values[3])

\* C5: the portfolio volatility has the index of the rolling correlation; at each
\* date it is defined exactly when vol1, vol2 and the correlation are all defined
\* there, and then equals combine of that date's values; nothing is filled in from
\* other dates.
C5_PortfolioVolatilityPointwise ==
    (Done("task1_calculate") /\ out.raised = "none")
        => LET returns == calculate_returns(call.prices)
               rolling == calculate_rolling_correlation(returns, call.window)
               vol1 == calculate_rolling_volatility(getitem_col(returns, call.stock1),
                                                    call.window)
               vol2 == calculate_rolling_volatility(getitem_col(returns, call.stock2),
                                                    call.window)
               pv == out.value.portfolio_vol
           IN  /\ pv.index = rolling.index
               /\ Len(pv.values) = Len(pv.index)
               /\ \A i \in 1..Len(pv.index) :
                    LET all3 == /\ notna(vol1.values[i])
                                /\ notna(vol2.values[i])
                                /\ notna(rolling.values[i])
                    IN  /\ notna(pv.values[i]) <=> all3
                        /\ all3 => pv.values[i]
                                    = calculate_portfolio_volatility(vol1.values[i],
                                          vol2.values[i], rolling.values[i],
                                          call.weight1, call.weight2)

\* a date with a portfolio volatility, followed by a date where both volatilities
\* are defined, the correlation is not, and the portfolio volatility is undefined
C5_Witness ==
    /\ Done("task1_calculate") /\ out.raised = "none"
    /\ \E i \in 1..(Len(out.value.portfolio_vol.values) - 1) :
        /\ notna(out.value.portfolio_vol.values[i])
        /\ notna(out.value.vol1.values[i + 1])
        /\ notna(out.value.vol2.values[i + 1])
        /\ IsNaN(out.value.rolling_corr.values[i + 1])
        /\ IsNaN(out.value.portfolio_vol.values[i + 1])

(***************************************************************************)
(* calculate_portfolio_volatility on its own (specification SpecCombine):  *)
(* volatilities and a correlation drawn from bounded sets, and weights     *)
(* typed at task1's prompts that pass its check and sum to exactly 100.    *)
(***************************************************************************)
CombineVols == {RInt(0), Rat(1, 10), Rat(1, 5), Rat(1, 2)}

CombineCorrs == {RInt(-1), Rat(-1, 2), RInt(0), Rat(1, 2), RInt(1)}

CombineWeights ==
    {<<to_decimal(float(t1)), to_decimal(float(t2))>> :
        <<t1, t2>> \in
            {tt \in WeightInputs \X WeightInputs :
                /\ IsFloatLiteral(tt[1]) /\ IsFloatLiteral(tt[2])
                /\ ~weights_rejected(float(tt[1]), float(tt[2]))
                /\ RAdd(float(tt[1]), float(tt[2])) = RInt(100)}}

CombineCalls ==
    {[fn |-> "calculate_portfolio_volatility", vol1 |-> v1, vol2 |-> v2, corr |-> c,
      weight1 |-> wt[1], weight2 |-> wt[2]] :
        v1 \in CombineVols, v2 \in CombineVols, c \in CombineCorrs, wt \in CombineWeights}

InitCombine ==
    /\ FlowIdle
    /\ call \in CombineCalls
    /\ out = Pending

CallPortfolioVolatility ==
    /\ call.fn = "calculate_portfolio_volatility" /\ out = Pending
    /\ out' = Returned(calculate_portfolio_volatility(call.vol1, call.vol2, call.corr,
                                                      call.weight1, call.weight2))
    /\ UNCHANGED <<flow, call>>

NextCombine == CallPortfolioVolatility

SpecCombine == InitCombine /\ [][NextCombine]_vars

CombineDone ==
    /\ Done("calculate_portfolio_volatility")
    /\ RAdd(call.weight1, call.weight2) = RInt(1)

WeightedSum == RAdd(RMul(call.weight1, call.vol1), RMul(call.weight2, call.vol2))

WeightedDifference == RSub(RMul(call.weight1, call.vol1), RMul(call.weight2, call.vol2))

\* C8 as claimed: for weights with w1 + w2 = 1 that pass task1's check (negative
\* and greater-than-one weights included) combine with corr = 1 is w1*v1 + w2*v2,
\* and with corr = -1 it is |w1*v1 - w2*v2|.
C8_PerfectCorrelationIsWeightedSum ==
    CombineDone
        => /\ call.corr = RInt(1) => out.value = WeightedSum
           /\ call.corr = RInt(-1) => out.value = RAbs(WeightedDifference)

\* C8 as amended: for such weights combine with corr = 1 is |w1*v1 + w2*v2|, and
\* with corr = -1 it is |w1*v1 - w2*v2|.
C8_PerfectCorrelationIsAbsoluteWeightedSum ==
    CombineDone
        => /\ call.corr = RInt(1) => out.value = RAbs(WeightedSum)
           /\ call.corr = RInt(-1) => out.value = RAbs(WeightedDifference)

\* corr = 1 with a short position large enough to make w1*v1 + w2*v2 negative
C8_Witness ==
    /\ CombineDone
    /\ call.corr = RInt(1)
    /\ RLess(call.weight2, RInt(0))
    /\ RLess(WeightedSum, RInt(0))

(***************************************************************************)
(* task2's correlation matrix on its own (specification SpecMatrix):       *)
(* returns of price tables of a few enumerated rows followed by a          *)
(* two-row cycle repeated LongReps times, so that tables shorter and       *)
(* longer than the 30-row tail occur.                                      *)
(***************************************************************************)
\* most columns of a table handed to the matrix
MatrixMaxCols == 3

\* most enumerated rows at the head of a table
MatrixMaxHead == 1

\* repetitions of the two-row cycle in a long table
LongReps == 16

\* rows, times times over
Repeat(rows, times) ==
    [t \in 1..(Len(rows) * times) |-> rows[((t - 1) % Len(rows)) + 1]]

MatrixPriceFrames(k) ==
    {DataFrame(Columns(k), [t \in 1..Len(rows) |-> t], rows) :
        rows \in
            {head \o Repeat(cycle, reps) :
                head \in UNION {[1..n -> PriceRows(k)] : n \in 0..MatrixMaxHead},
                cycle \in PriceRows(k) \X PriceRows(k),
                reps \in {0, LongReps}}}

MatrixCalls ==
    {[fn |-> "correlation_matrix", returns |-> calculate_returns(p)] :
        p \in UNION {MatrixPriceFrames(k) : k \in 2..MatrixMaxCols}}

InitMatrix ==
    /\ FlowIdle
    /\ call \in MatrixCalls
    /\ out = Pending

CallCorrelationMatrix ==
    /\ call.fn = "correlation_matrix" /\ out = Pending
    /\ out' = Returned(correlation_matrix(call.returns))
    /\ UNCHANGED <<flow, call>>

NextMatrix == CallCorrelationMatrix

SpecMatrix == InitMatrix /\ [][NextMatrix]_vars

\* the most recent min(30, available) rows of the call's returns
RecentRows ==
    LET n == Len(call.returns.rows)
    IN  SubSeq(call.returns.rows, n - Min(30, n) + 1, n)

RecentColumn(i) == [t \in 1..Len(RecentRows) |-> RecentRows[t][i]]

Varies(xs) == \E a \in 1..Len(xs), b \in 1..Len(xs) : xs[a] # xs[b]

\* the matrix is N x N, symmetric and computed from exactly the recent rows
MatrixOfRecentRows ==
    LET N == Len(call.returns.columns)
        M == out.value
    IN  /\ out.raised = "none"
        /\ Len(M) = N
        /\ \A i \in 1..N :
            /\ Len(M[i]) = N
            /\ \A j \in 1..N :
                /\ M[i][j] = M[j][i]
                /\ M[i][j] = Pearson(RecentColumn(i), RecentColumn(j))

====
